---- MODULE Spec2Model ----
(***************************************************************************)
(* Pre-turn memory recall (runPreTurnMemoryRecall) of activeclaw.          *)
(*                                                                         *)
(* The repository holds two copies of the recall pipeline:                 *)
(*   src/src/auto-reply/reply/agent-runner-recall.ts   (impl "recall")     *)
(*   src/unnamed/part_002                              (impl "part_002")   *)
(* Both are modelled; the variable impl says which copy an invocation      *)
(* runs.  One behaviour is one invocation: Init draws the arguments, the   *)
(* actions are the synchronous stretches of the async function between     *)
(* its two awaits.                                                         *)
(*                                                                         *)
(* Conventions.  JavaScript strings are TLA+ strings (Len, SubSeq and \o   *)
(* act on them character by character).  An optional value (undefined or   *)
(* null in the code) is None == <<>> or Some(v) == <<v>>.  A score is an   *)
(* integer number of 1/1600ths, so that score * 0.7 + score * 2^-k * 0.3   *)
(* is an exact integer for every whole number of half-lives |k| <= 4.      *)
(* Times are whole days since the epoch.                                   *)
(*                                                                         *)
(* The Hub channel plugin (src/extensions/hub) is modelled next to it:     *)
(* pollHubMessages with the monitor's onMessages callback (HubSpec), and   *)
(* one handleHubInbound call (InboundSpec).  Each specification moves its  *)
(* own variables and leaves the others where they start.                   *)
(***************************************************************************)
EXTENDS Integers, Sequences, FiniteSets, TLC

VARIABLES
    impl,               \* which source file's runPreTurnMemoryRecall runs
    cfg,                \* params.cfg
    incomingMessage,    \* params.incomingMessage
    isHeartbeat,        \* params.isHeartbeat
    bootstrappedPaths,  \* params.bootstrappedPaths (optional Set<string>)
    pc,                 \* position of the invocation
    managerCalls,       \* number of getMemorySearchManager calls made
    searchCalls,        \* options of every manager.search call made, in order
    outcomes,           \* how each collaborator call ended, in order
    results,            \* what manager.search resolved to (None before)
    searchArray,        \* that array object's contents as they stand now
    filtered,           \* results after the bootstrap filter
    ranked,             \* the list the selection slices (after decay/sort)
    selected,           \* the selected candidates
    snippets,           \* the rendered, joined (untruncated) snippet string
    now,                \* Date.now() as read by the decay stage (None if not read)
    ret,                \* the value the promise resolved to (None = null)
    log                 \* notices emitted, in order

vars == <<impl, cfg, incomingMessage, isHeartbeat, bootstrappedPaths, pc,
          managerCalls, searchCalls, outcomes, results, searchArray, filtered,
          ranked, selected, snippets, now, ret, log>>

VARIABLES
    pollpc,             \* position of pollHubMessages
    aborted,            \* abortSignal.aborted
    attempt,            \* the local attempt
    thrown,             \* an error is propagating through the finally block
    messages,           \* the batch handed to onMessages
    handled,            \* the messages the monitor's loop has taken, in order
    requestsInFlight,   \* fetchWithSsrFGuard calls not yet settled
    handlersInFlight,   \* onMessages calls not yet settled
    unreleased,         \* responses obtained and not yet released
    onErrorCalls,       \* number of onError calls made
    delay,              \* the last computeBackoff result, ms (None before)
    iterations,         \* how each finished loop iteration ended, in order
    polls               \* number of poll requests issued

pollVars == <<pollpc, aborted, attempt, thrown, messages, handled,
              requestsInFlight, handlersInFlight, unreleased, onErrorCalls,
              delay, iterations, polls>>

VARIABLES
    inpc,               \* position of handleHubInbound
    inbound,            \* params.message: [from, text]
    dmPolicyCfg,        \* account.config.dmPolicy (optional)
    allowFromCfg,       \* account.config.allowFrom (optional list)
    storeAllowFrom,     \* what readStoreAllowFromForDmPolicy resolved to
    pairingRequests,    \* ids with a pairing request in the store
    shouldBlock,        \* commandGate.shouldBlock
    upserts,            \* ids passed to pairing.upsertPairingRequest, in order
    created,            \* the created flag of the upsert (None before)
    pairingReplies,     \* targets of the pairing replies sent
    recorded,           \* number of recordInboundSession calls
    dispatched,         \* number of dispatchReplyWithBufferedBlockDispatcher calls
    drops               \* reasons passed to logInboundDrop, in order

inboundVars == <<inpc, inbound, dmPolicyCfg, allowFromCfg, storeAllowFrom,
                 pairingRequests, shouldBlock, upserts, created,
                 pairingReplies, recorded, dispatched, drops>>

hubVars == <<pollVars, inboundVars>>

allVars == <<vars, hubVars>>

-----------------------------------------------------------------------------
(* Optional values and JavaScript truthiness.                              *)

None == <<>>
Some(v) == <<v>>

\* a ?? b
Coalesce(o, d) == IF o = None THEN d ELSE o[1]

Min(a, b) == IF a < b THEN a ELSE b
Max(a, b) == IF a > b THEN a ELSE b

-----------------------------------------------------------------------------
(* String primitives of the JavaScript runtime.                            *)

\* String.prototype.slice(0, n) for n >= 0
StrPrefix(s, n) == SubSeq(s, 1, Min(n, Len(s)))

\* s.includes(t): t occurs in s as a contiguous substring ("" always does)
Includes(s, t) ==
    \E i \in 1..(Len(s) - Len(t) + 1) : SubSeq(s, i, i + Len(t) - 1) = t

\* index of the last character of s that is not a trailing "/" (0 if none)
RECURSIVE LastNonSlash(_, _)
LastNonSlash(s, i) ==
    IF i = 0 THEN 0
    ELSE IF SubSeq(s, i, i) = "/" THEN LastNonSlash(s, i - 1) ELSE i

\* index of the last "/" among s[1..i] (0 if none)
RECURSIVE LastSlash(_, _)
LastSlash(s, i) ==
    IF i = 0 THEN 0
    ELSE IF SubSeq(s, i, i) = "/" THEN i ELSE LastSlash(s, i - 1)

\* path.basename(s) (POSIX): the last path component, trailing slashes dropped
Basename(s) ==
    LET e == LastNonSlash(s, Len(s))
        b == LastSlash(s, e)
    IN  SubSeq(s, b + 1, e)

\* Array.prototype.join: the strings of seq separated by sep
RECURSIVE Join(_, _)
Join(seq, sep) ==
    IF seq = <<>> THEN ""
    ELSE IF Len(seq) = 1 THEN seq[1]
    ELSE seq[1] \o sep \o Join(Tail(seq), sep)

\* Array.prototype.slice(start, end) with JavaScript's index normalisation
Slice(seq, start, end) ==
    LET n == Len(seq)
        from == IF start < 0 THEN Max(n + start, 0) ELSE Min(start, n)
        to == IF end < 0 THEN Max(n + end, 0) ELSE Min(end, n)
    IN  SubSeq(seq, from + 1, to)

\* Array.prototype.slice(start)
SliceFrom(seq, start) == Slice(seq, start, Len(seq))

-----------------------------------------------------------------------------
(* Dates: the regular expression of the decay stage and new Date(...).     *)

Digits == {"0", "1", "2", "3", "4", "5", "6", "7", "8", "9"}

DigitVal(c) ==
    CASE c = "0" -> 0 [] c = "1" -> 1 [] c = "2" -> 2 [] c = "3" -> 3
      [] c = "4" -> 4 [] c = "5" -> 5 [] c = "6" -> 6 [] c = "7" -> 7
      [] c = "8" -> 8 [] c = "9" -> 9

CharAt(s, i) == SubSeq(s, i, i)

\* /(\d{4}-\d{2}-\d{2})/ matches s at offset i (1-based)
DateAt(s, i) ==
    /\ i + 9 <= Len(s)
    /\ \A j \in {0, 1, 2, 3, 5, 6, 8, 9} : CharAt(s, i + j) \in Digits
    /\ CharAt(s, i + 4) = "-"
    /\ CharAt(s, i + 7) = "-"

\* datePattern.exec(s): the leftmost match, or None
DatePatternExec(s) ==
    LET hits == {i \in 1..Len(s) : DateAt(s, i)}
    IN  IF hits = {} THEN None
        ELSE Some(LET i == CHOOSE i \in hits : \A j \in hits : i <= j
                  IN  SubSeq(s, i, i + 9))

Num2(s, i) == 10 * DigitVal(CharAt(s, i)) + DigitVal(CharAt(s, i + 1))

IsLeap(y) == (y % 4 = 0 /\ y % 100 # 0) \/ y % 400 = 0

DaysInMonth(y, m) ==
    IF m = 2 THEN (IF IsLeap(y) THEN 29 ELSE 28)
    ELSE IF m \in {4, 6, 9, 11} THEN 30 ELSE 31

\* days from 1970-01-01 to the civil date y-m-d (proleptic Gregorian)
DaysFromCivil(y, m, d) ==
    LET yy == IF m <= 2 THEN y - 1 ELSE y
        era == (IF yy >= 0 THEN yy ELSE yy - 399) \div 400
        yoe == yy - era * 400
        mp == (m + 9) % 12
        doy == (153 * mp + 2) \div 5 + d - 1
        doe == yoe * 365 + yoe \div 4 - yoe \div 100 + doy
    IN  era * 146097 + doe - 719468

\* new Date("YYYY-MM-DD").getTime(): UTC midnight, None for NaN.  Times are
\* counted in whole days since the epoch (the code's milliseconds divided
\* by 86 400 000, which TLC's 32-bit integers cannot hold).
\* A day past the end of its month (e.g. 02-30) is engine-dependent and is
\* kept out of the inputs; here it is treated as NaN.
DateGetTime(str) ==
    LET y == 100 * Num2(str, 1) + Num2(str, 3)
        m == Num2(str, 6)
        d == Num2(str, 9)
    IN  IF m \in 1..12 /\ d \in 1..DaysInMonth(y, m)
        THEN Some(DaysFromCivil(y, m, d))
        ELSE None

RECURSIVE Pow2(_)
Pow2(k) == IF k = 0 THEN 1 ELSE 2 * Pow2(k - 1)

\* r.score * 0.7 + r.score * Math.pow(2, -ageMs / halfLifeMs) * 0.3,
\* exact when ageMs is a whole number k of half-lives and the score is a
\* multiple of 10 * 2^k score units (true of every input drawn below)
AdjustedScore(score, ageMs, halfLifeMs) ==
    LET k == ageMs \div halfLifeMs
    IN  IF k >= 0
        THEN (score * (7 * Pow2(k) + 3)) \div (10 * Pow2(k))
        ELSE (score * (7 + 3 * Pow2(0 - k))) \div 10

\* insert r into the list s (sorted by descending score) after every entry
\* whose score is not smaller: a stable insertion
RECURSIVE InsertByScore(_, _)
InsertByScore(s, r) ==
    IF s = <<>> THEN <<r>>
    ELSE IF Head(s).score >= r.score THEN <<Head(s)>> \o InsertByScore(Tail(s), r)
    ELSE <<r>> \o s

\* results.sort((a, b) => b.score - a.score): stable, descending by score
RECURSIVE SortByScoreDesc(_)
SortByScoreDesc(s) ==
    IF s = <<>> THEN <<>>
    ELSE InsertByScore(SortByScoreDesc(SubSeq(s, 1, Len(s) - 1)), s[Len(s)])

-----------------------------------------------------------------------------
(* Settings (resolveMemoryRecallSettings).                                 *)
(* cfg is [memoryRecall, halfLifeDays]: cfg.agents.defaults.memoryRecall   *)
(* (an optional record of optional fields) and                             *)
(* cfg.agents.defaults.memorySearch.query.hybrid.temporalDecay.halfLifeDays*)

\* !x for an optional boolean
Falsy(o) == o = None \/ o[1] = FALSE

\* mutant: || in place of ??, so an explicit 0 or false yields the default
SettingsOfFalsyDefault(raw) ==
    LET OrNum(o, d) == IF o = None \/ o[1] = 0 THEN d ELSE o[1]
        OrBool(o, d) == IF o = None \/ o[1] = FALSE THEN d ELSE o[1]
    IN  [enabled              |-> TRUE,
         minMessageLength     |-> OrNum(raw.minMessageLength, 20),
         maxResults           |-> OrNum(raw.maxResults, 3),
         minScore             |-> OrNum(raw.minScore, 800),
         maxTokens            |-> OrNum(raw.maxTokens, 1000),
         skipHeartbeats       |-> OrBool(raw.skipHeartbeats, TRUE),
         excludeBootstrapped  |-> OrBool(raw.excludeBootstrapped, TRUE),
         randomSlot           |-> OrBool(raw.randomSlot, TRUE),
         respectTemporalDecay |-> OrBool(raw.respectTemporalDecay, TRUE)]

\* the settings literal of agent-runner-recall.ts; minScore 0.5 is 800/1600
SettingsOf(raw) ==
    [enabled              |-> TRUE,
     minMessageLength     |-> Coalesce(raw.minMessageLength, 20),
     maxResults           |-> Coalesce(raw.maxResults, 3),
     minScore             |-> Coalesce(raw.minScore, 800),
     maxTokens            |-> Coalesce(raw.maxTokens, 1000),
     skipHeartbeats       |-> Coalesce(raw.skipHeartbeats, TRUE),
     excludeBootstrapped  |-> Coalesce(raw.excludeBootstrapped, TRUE),
     randomSlot           |-> Coalesce(raw.randomSlot, TRUE),
     respectTemporalDecay |-> Coalesce(raw.respectTemporalDecay, TRUE)]

\* mutant: a section without an enabled flag counts as enabled
ResolveEnabledUnlessFalse(c) ==
    LET raw == c.memoryRecall
    IN  IF raw = None \/ raw[1].enabled = Some(FALSE) THEN None
        ELSE Some(SettingsOf(raw[1]))

\* agent-runner-recall.ts: None when disabled, else Some(settings)
ResolveMemoryRecallSettings(c) ==
    LET raw == c.memoryRecall
    IN  IF raw = None \/ Falsy(raw[1].enabled) THEN None
        ELSE Some(SettingsOf(raw[1]))

\* part_002: the same, with the deprecated skipCron field
ResolveMemoryRecallSettingsP2(c) ==
    LET raw == c.memoryRecall
    IN  IF raw = None \/ Falsy(raw[1].enabled) THEN None
        ELSE Some([enabled              |-> TRUE,
                   minMessageLength     |-> Coalesce(raw[1].minMessageLength, 20),
                   maxResults           |-> Coalesce(raw[1].maxResults, 3),
                   minScore             |-> Coalesce(raw[1].minScore, 800),
                   maxTokens            |-> Coalesce(raw[1].maxTokens, 1000),
                   skipHeartbeats       |-> Coalesce(raw[1].skipHeartbeats, TRUE),
                   skipCron             |-> Coalesce(raw[1].skipCron, TRUE),
                   excludeBootstrapped  |-> Coalesce(raw[1].excludeBootstrapped, TRUE),
                   randomSlot           |-> Coalesce(raw[1].randomSlot, TRUE),
                   respectTemporalDecay |-> Coalesce(raw[1].respectTemporalDecay, TRUE)])

Resolve(i, c) ==
    IF i = "recall" THEN ResolveMemoryRecallSettings(c)
    ELSE ResolveMemoryRecallSettingsP2(c)

\* resolveTemporalHalfLifeMs, in days
ResolveTemporalHalfLifeMs(c) == Coalesce(c.halfLifeDays, 14)

-----------------------------------------------------------------------------
(* Eligibility gate: the early returns before the first await.             *)

\* mutant: a message exactly minMessageLength long is rejected too
GateInclusive(settingsOpt, message, heartbeat) ==
    IF settingsOpt = None THEN "disabled"
    ELSE IF Len(message) <= settingsOpt[1].minMessageLength THEN "short"
    ELSE IF settingsOpt[1].skipHeartbeats /\ heartbeat THEN "heartbeat"
    ELSE "proceed"

\* mutant: the heartbeat rule is missing
GateNoHeartbeat(settingsOpt, message, heartbeat) ==
    IF settingsOpt = None THEN "disabled"
    ELSE IF Len(message) < settingsOpt[1].minMessageLength THEN "short"
    ELSE "proceed"

\* "disabled", "short", "heartbeat" (each returns null) or "proceed"
Gate(settingsOpt, message, heartbeat) ==
    IF settingsOpt = None THEN "disabled"
    ELSE IF Len(message) < settingsOpt[1].minMessageLength THEN "short"
    ELSE IF settingsOpt[1].skipHeartbeats /\ heartbeat THEN "heartbeat"
    ELSE "proceed"

-----------------------------------------------------------------------------
(* Candidate fetch: the options handed to manager.search.                  *)

\* agent-runner-recall.ts
RequestCount(settings) ==
    LET extraCandidates == (IF settings.excludeBootstrapped THEN 3 ELSE 0)
                           + (IF settings.randomSlot THEN 2 ELSE 0)
    IN  settings.maxResults + extraCandidates

\* part_002
RequestCountP2(settings) ==
    settings.maxResults + (IF settings.randomSlot THEN 2 ELSE 0)

SearchOptions(i, settings, message) ==
    [query      |-> message,
     maxResults |-> IF i = "recall" THEN RequestCount(settings)
                    ELSE RequestCountP2(settings),
     minScore   |-> settings.minScore]

-----------------------------------------------------------------------------
(* Bootstrap filter.  A candidate is                                       *)
(* [path, source, startLine: optional; score; snippet].                    *)

\* r.path ?? r.source
SourceOf(r) == IF r.path # None THEN r.path ELSE r.source

\* !s for an optional string
FalsyStr(o) == o = None \/ o[1] = ""

DEFAULT_BOOTSTRAPPED_FILENAMES == {"MEMORY.md", "memory.md"}

\* mutant: a missing source is read as "" and matched like any other
KeepCandidateEmptySource(r, bootstrapped) ==
    LET source == Coalesce(SourceOf(r), "")
    IN  IF Basename(source) \in DEFAULT_BOOTSTRAPPED_FILENAMES THEN FALSE
        ELSE ~ \E bp \in bootstrapped :
                   Includes(source, bp) \/ Includes(bp, source)

\* mutant: only source.includes(bp) is tested
KeepCandidateOneWay(r, bootstrapped) ==
    LET source == SourceOf(r)
    IN  IF FalsyStr(source) THEN TRUE
        ELSE IF Basename(source[1]) \in DEFAULT_BOOTSTRAPPED_FILENAMES THEN FALSE
        ELSE ~ \E bp \in bootstrapped : Includes(source[1], bp)

\* the filter callback of agent-runner-recall.ts: TRUE keeps r
KeepCandidate(r, bootstrapped) ==
    LET source == SourceOf(r)
    IN  IF FalsyStr(source) THEN TRUE
        ELSE IF Basename(source[1]) \in DEFAULT_BOOTSTRAPPED_FILENAMES THEN FALSE
        ELSE ~ \E bp \in bootstrapped :
                   Includes(source[1], bp) \/ Includes(bp, source[1])

\* the filter callback of part_002
KeepCandidateP2(r, bootstrapped) ==
    LET source == SourceOf(r)
    IN  IF FalsyStr(source) THEN TRUE
        ELSE ~ \E bp \in bootstrapped :
                   Includes(source[1], bp) \/ Includes(bp, source[1])

\* mutant: the filter runs whatever excludeBootstrapped says
BootstrapFilterAlways(res, settings, bsp) ==
    LET bootstrapped == Coalesce(bsp, {})
        Keep(r) == KeepCandidate(r, bootstrapped)
    IN  SelectSeq(res, Keep)

\* agent-runner-recall.ts: params.bootstrappedPaths ?? new Set();
\* Array.prototype.filter is SelectSeq
BootstrapFilter(res, settings, bsp) ==
    IF settings.excludeBootstrapped
    THEN LET bootstrapped == Coalesce(bsp, {})
             Keep(r) == KeepCandidate(r, bootstrapped)
         IN  SelectSeq(res, Keep)
    ELSE res

\* part_002: only when params.bootstrappedPaths?.size is truthy
BootstrapFilterP2(res, settings, bsp) ==
    IF settings.excludeBootstrapped /\ bsp # None /\ Cardinality(bsp[1]) # 0
    THEN LET Keep(r) == KeepCandidateP2(r, bsp[1])
         IN  SelectSeq(res, Keep)
    ELSE res

-----------------------------------------------------------------------------
(* Temporal decay (agent-runner-recall.ts only).                           *)

\* the map callback: r with its score decayed by the age of the date in r.path
DecayOne(r, nowT, halfLife) ==
    LET match == IF ~FalsyStr(r.path) THEN DatePatternExec(r.path[1]) ELSE None
        fileDate == IF match = None THEN None ELSE DateGetTime(match[1])
    IN  IF match = None \/ fileDate = None THEN r
        ELSE [r EXCEPT !.score = AdjustedScore(r.score, nowT - fileDate[1], halfLife)]

ApplyTemporalDecay(res, settings, nowT, halfLife) ==
    IF settings.respectTemporalDecay
    THEN SortByScoreDesc([i \in 1..Len(res) |-> DecayOne(res[i], nowT, halfLife)])
    ELSE res

-----------------------------------------------------------------------------
(* Array objects.  The local `results` is rebound by the stages that build *)
(* a new array; results.sort and a write to r.score act on whatever array  *)
(* and records `results` names at that point.                              *)

\* the array `results` names after the filter stage: Array.prototype.filter
\* returns a new array, and the stage is skipped as a whole otherwise
ResultsAfterFilter(i, st, bsp) ==
    IF i = "recall"
    THEN IF st.excludeBootstrapped THEN "filtered" ELSE "returned"
    ELSE IF st.excludeBootstrapped /\ bsp # None /\ Cardinality(bsp[1]) # 0
         THEN "filtered" ELSE "returned"

\* mutant: the decay loop assigns r.score and sorts without results.map
ResultsAtSortInPlace(i, st, bsp) == ResultsAfterFilter(i, st, bsp)

\* the array results.sort is called on: the one results.map returned, whose
\* rescored records are fresh objects ({ ...r, score })
ResultsAtSort(i, st, bsp) == "mapped"

\* the contents of the array manager.search resolved to (res) once the
\* stages have run on the non-empty filtered list flt
SearchArrayAfter(i, st, halfLife, bsp, res, flt, nowT) ==
    IF /\ i = "recall" /\ st.respectTemporalDecay /\ flt # <<>>
       /\ ResultsAtSort(i, st, bsp) = "returned"
    THEN ApplyTemporalDecay(res, st, nowT, halfLife)
    ELSE res

-----------------------------------------------------------------------------
(* Selection.                                                              *)

\* agent-runner-recall.ts: does the random-slot branch run
RandomBranch(res, settings) ==
    settings.randomSlot /\ Len(res) > settings.maxResults

\* the values Math.floor(Math.random() * n) can take
RandomIndexes(n) == IF n <= 0 THEN {0} ELSE 0..(n - 1)

\* results.slice(settings.maxResults - 1): the candidates the draw picks from
Remaining(res, settings) == SliceFrom(res, settings.maxResults - 1)

\* mutant: the draw indexes the whole list instead of the remaining candidates
SelectResultsDrawAll(res, settings, randomIndex) ==
    IF RandomBranch(res, settings)
    THEN LET topResults == Slice(res, 0, settings.maxResults - 1)
         IN  topResults \o <<res[randomIndex + 1]>>
    ELSE Slice(res, 0, settings.maxResults)

\* mutant: the deterministic slice keeps maxResults entries, not maxResults - 1
SelectResultsTopN(res, settings, randomIndex) ==
    IF RandomBranch(res, settings)
    THEN Slice(res, 0, settings.maxResults)
         \o <<Remaining(res, settings)[randomIndex + 1]>>
    ELSE Slice(res, 0, settings.maxResults)

\* agent-runner-recall.ts; randomIndex is the draw, read only in the random branch
SelectResults(res, settings, randomIndex) ==
    IF RandomBranch(res, settings)
    THEN LET topResults == Slice(res, 0, settings.maxResults - 1)
         IN  topResults \o <<Remaining(res, settings)[randomIndex + 1]>>
    ELSE Slice(res, 0, settings.maxResults)

\* part_002: results.slice(0, settings.maxResults)
SelectResultsP2(res, settings, randomIndex) ==
    Slice(res, 0, settings.maxResults)

-----------------------------------------------------------------------------
(* Rendering and the token budget.                                         *)

\* the map callback of the format stage
RenderSnippet(r) ==
    LET location ==
            IF ~FalsyStr(r.path)
            THEN "[" \o r.path[1]
                 \o (IF r.startLine # None /\ r.startLine[1] # 0
                     THEN "#L" \o ToString(r.startLine[1]) ELSE "")
                 \o "]"
            ELSE "[memory]"
    IN  location \o ": " \o r.snippet

RenderSnippets(sel) == Join([i \in 1..Len(sel) |-> RenderSnippet(sel[i])], "\n\n")

RecallHeader ==
    "## Auto-recalled from memory\nThe following was automatically retrieved from memory based on the incoming message. Use if relevant, ignore if not.\n\n"

FormatRecallBlock(body) == RecallHeader \o body

\* Math.ceil(n / 4)
EstimateTokens(text) == (Len(text) + 3) \div 4

\* mutant: the budget is estimated but the text is never cut
BudgetBodyNoCut(text, settings) == text

\* the body handed to formatRecallBlock
BudgetBody(text, settings) ==
    IF EstimateTokens(text) > settings.maxTokens
    THEN StrPrefix(text, settings.maxTokens * 4)
    ELSE text

Notice(level, event) == [level |-> level, event |-> event]

-----------------------------------------------------------------------------
(* Inputs.                                                                 *)

MaxCandidates == 5      \* longest list manager.search resolves to

Impls == {"recall", "part_002"}

RawDefaults ==
    [enabled |-> Some(TRUE), minMessageLength |-> None, maxResults |-> None,
     minScore |-> None, maxTokens |-> None, skipHeartbeats |-> None,
     skipCron |-> None, excludeBootstrapped |-> None, randomSlot |-> None,
     respectTemporalDecay |-> None]

Messages == {"", "hi", "what did we decide?", "what did we decide ?"}

\* configurations that exercise the resolver and the gate
GateConfigs ==
    {[memoryRecall |-> None, halfLifeDays |-> None]}
    \cup {[memoryRecall |->
               Some([RawDefaults EXCEPT !.enabled = e, !.minMessageLength = m,
                                        !.skipHeartbeats = h]),
           halfLifeDays |-> None] :
          e \in {None, Some(FALSE), Some(TRUE)},
          m \in {None, Some(0), Some(2)},
          h \in {None, Some(TRUE), Some(FALSE)}}

\* configurations that exercise fetch, filter, decay, selection and budget
PipelineConfigs ==
    {[memoryRecall |->
          Some([RawDefaults EXCEPT !.minMessageLength = Some(2),
                                   !.maxResults = n, !.maxTokens = t,
                                   !.excludeBootstrapped = x, !.randomSlot = r,
                                   !.respectTemporalDecay = d]),
      halfLifeDays |-> hl] :
     n \in {None, Some(1), Some(2)},
     t \in {None, Some(4)},
     x \in {None, Some(FALSE)},
     r \in {None, Some(FALSE)},
     d \in {None, Some(FALSE)},
     hl \in {None, Some(7)}}

\* configurations outside the documented ranges, which the resolver accepts
EdgeConfigs ==
    {[memoryRecall |->
          Some([RawDefaults EXCEPT !.minMessageLength = Some(2),
                                   !.maxResults = n, !.maxTokens = t,
                                   !.randomSlot = r, !.minScore = ms]),
      halfLifeDays |-> None] :
     n \in {None, Some(0)}, t \in {None, Some(0)}, r \in {None, Some(FALSE)},
     ms \in {None, Some(0)}}

BootstrappedSets ==
    {None, Some({}), Some({""}), Some({"notes/", "/home/a/memory/2026-11-02.md"})}

Inputs ==
    {[cfg |-> c, incomingMessage |-> m, isHeartbeat |-> hb, bootstrappedPaths |-> None] :
         c \in GateConfigs, m \in Messages, hb \in BOOLEAN}
    \cup {[cfg |-> c, incomingMessage |-> "hi", isHeartbeat |-> FALSE,
           bootstrappedPaths |-> b] :
         c \in PipelineConfigs, b \in BootstrappedSets}
    \cup {[cfg |-> c, incomingMessage |-> "hi", isHeartbeat |-> FALSE,
           bootstrappedPaths |-> None] : c \in EdgeConfigs}

Candidate(p, src, line, score, text) ==
    [path |-> p, source |-> src, startLine |-> line, score |-> score, snippet |-> text]

\* the memory the collaborator searches; scores 0.9 .. 0.5 in 1/1600ths
\* (0.65 for the candidate that has neither path nor source)
CandidatePool ==
    {Candidate(Some("memory/2026-10-19.md"), Some("memory"), Some(12), 1440, "ship friday"),
     Candidate(Some("notes/todo.md"), Some("memory"), None, 1280, "buy milk"),
     Candidate(Some("MEMORY.md"), Some("memory"), Some(3), 1120, "core"),
     Candidate(None, None, None, 1040, "loose"),
     Candidate(None, Some("sessions"), None, 960, "chat"),
     Candidate(Some("memory/2026-11-02.md"), Some("memory"), Some(0), 800, ""),
     Candidate(Some("docs/memory.md"), Some("memory"), Some(7), 800, "old")}

\* what manager.search may resolve to: up to MaxCandidates distinct
\* candidates, highest score first (the collaborator's contract)
CandidateLists ==
    UNION {{s \in [1..n -> CandidatePool] :
                /\ \A i, j \in 1..n : i < j => s[i] # s[j] /\ s[i].score >= s[j].score} :
           n \in 0..MaxCandidates}

\* the values Date.now() takes: 2026-11-02 and 2026-11-16, in days
Clock == {20759, 20773}

-----------------------------------------------------------------------------
(* Where each part starts.                                                 *)

\* pollHubMessages has been called and is at its while test; attempt = 0
PollInit ==
    /\ pollpc = "loop"
    /\ aborted = FALSE
    /\ attempt = 0
    /\ thrown = FALSE
    /\ messages = <<>>
    /\ handled = <<>>
    /\ requestsInFlight = 0
    /\ handlersInFlight = 0
    /\ unreleased = 0
    /\ onErrorCalls = 0
    /\ delay = None
    /\ iterations = <<>>
    /\ polls = 0

\* handleHubInbound has been called with these arguments and store contents
InboundCalled(msg, policy, allow, requests) ==
    /\ inpc = "start"
    /\ inbound = msg
    /\ dmPolicyCfg = policy
    /\ allowFromCfg = allow
    /\ pairingRequests = requests
    /\ storeAllowFrom = None
    /\ shouldBlock = None
    /\ upserts = <<>>
    /\ created = None
    /\ pairingReplies = <<>>
    /\ recorded = 0
    /\ dispatched = 0
    /\ drops = <<>>

\* the Hub plugin at rest while a recall invocation runs
HubIdle ==
    /\ PollInit
    /\ InboundCalled([from |-> "", text |-> None], None, None, {})

\* runPreTurnMemoryRecall not running: called with recall disabled
RecallIdle ==
    /\ impl = "recall"
    /\ cfg = [memoryRecall |-> None, halfLifeDays |-> None]
    /\ incomingMessage = ""
    /\ isHeartbeat = FALSE
    /\ bootstrappedPaths = None
    /\ pc = "start"
    /\ managerCalls = 0
    /\ searchCalls = <<>>
    /\ outcomes = <<>>
    /\ results = None
    /\ searchArray = None
    /\ filtered = <<>>
    /\ ranked = <<>>
    /\ selected = <<>>
    /\ snippets = ""
    /\ now = None
    /\ ret = None
    /\ log = <<>>

-----------------------------------------------------------------------------
(* The invocation.                                                         *)

Init ==
    /\ impl \in Impls
    /\ \E in \in Inputs :
           /\ cfg = in.cfg
           /\ incomingMessage = in.incomingMessage
           /\ isHeartbeat = in.isHeartbeat
           /\ bootstrappedPaths = in.bootstrappedPaths
    /\ pc = "start"
    /\ managerCalls = 0
    /\ searchCalls = <<>>
    /\ outcomes = <<>>
    /\ results = None
    /\ searchArray = None
    /\ filtered = <<>>
    /\ ranked = <<>>
    /\ selected = <<>>
    /\ snippets = ""
    /\ now = None
    /\ ret = None
    /\ log = <<>>
    /\ HubIdle

params == <<impl, cfg, incomingMessage, isHeartbeat, bootstrappedPaths>>
locals == <<results, searchArray, filtered, ranked, selected, snippets, now>>

Settings == Resolve(impl, cfg)[1]

\* an async function's promise settles once: resolved with value, or rejected
Return(value, notices) == [kind |-> "return", value |-> value, notices |-> notices]
Throw(notices) == [kind |-> "throw", value |-> None, notices |-> notices]

Settle(c) ==
    /\ pc' = IF c.kind = "return" THEN "returned" ELSE "threw"
    /\ ret' = c.value
    /\ log' = log \o c.notices

\* entry up to the first await: resolve the settings, run the gate and, if
\* the message is eligible, call getMemorySearchManager
Start ==
    /\ pc = "start"
    /\ IF Gate(Resolve(impl, cfg), incomingMessage, isHeartbeat) = "proceed"
       THEN /\ managerCalls' = managerCalls + 1
            /\ pc' = "awaitManager"
            /\ UNCHANGED <<ret, log>>
       ELSE /\ Settle(Return(None, <<>>))
            /\ UNCHANGED managerCalls
    /\ UNCHANGED <<params, locals, searchCalls, outcomes, hubVars>>

\* the catch block around getMemorySearchManager
OnManagerRejected == Return(None, <<Notice("warn", "failed to get manager")>>)

\* getMemorySearchManager rejects
ManagerRejects ==
    /\ pc = "awaitManager"
    /\ outcomes' = Append(outcomes, "manager rejected")
    /\ Settle(OnManagerRejected)
    /\ UNCHANGED <<params, locals, managerCalls, searchCalls, hubVars>>

\* mutant: manager.search is called although no manager was handed back
ManagerUnavailableSearches ==
    /\ pc = "awaitManager"
    /\ searchCalls' = Append(searchCalls, SearchOptions(impl, Settings, incomingMessage))
    /\ outcomes' = Append(outcomes, "manager null")
    /\ pc' = "awaitSearch"
    /\ UNCHANGED <<params, locals, managerCalls, ret, log, hubVars>>

\* mutant: a timer returns null while getMemorySearchManager is still pending
ManagerUnavailableTimeout ==
    /\ pc = "awaitManager"
    /\ Settle(Return(None, <<>>))
    /\ UNCHANGED <<params, locals, managerCalls, searchCalls, outcomes, hubVars>>

\* if (!manager) return null
OnManagerUnavailable == Return(None, <<>>)

\* getMemorySearchManager resolves to { manager: null }
ManagerUnavailable ==
    /\ pc = "awaitManager"
    /\ outcomes' = Append(outcomes, "manager null")
    /\ Settle(OnManagerUnavailable)
    /\ UNCHANGED <<params, locals, managerCalls, searchCalls, hubVars>>

\* getMemorySearchManager resolves with a manager: manager.search is called
ManagerResolves ==
    /\ pc = "awaitManager"
    /\ searchCalls' = Append(searchCalls, SearchOptions(impl, Settings, incomingMessage))
    /\ outcomes' = Append(outcomes, "manager resolved")
    /\ pc' = "awaitSearch"
    /\ UNCHANGED <<params, locals, managerCalls, ret, log, hubVars>>

\* mutant: the catch block logs and rethrows
OnSearchRejectedRethrow == Throw(<<Notice("warn", "search failed")>>)

\* the catch block around manager.search
OnSearchRejected == Return(None, <<Notice("warn", "search failed")>>)

\* manager.search rejects
SearchRejects ==
    /\ pc = "awaitSearch"
    /\ outcomes' = Append(outcomes, "search rejected")
    /\ Settle(OnSearchRejected)
    /\ UNCHANGED <<params, locals, managerCalls, searchCalls, hubVars>>

\* mutant: the early return writes an informational notice
NoResultsLogged == Return(None, <<Notice("info", "results")>>)

\* mutant: the header with nothing after it instead of null
NoResultsHeaderOnly == Return(Some(FormatRecallBlock("")), <<>>)

\* mutant: an empty string instead of null
NoResultsEmptyString == Return(Some(""), <<>>)

\* if (!results.length) return null, after the search and after the filter
NoResults == Return(None, <<>>)

\* the stages after the search, by source file
Filter(res) ==
    IF impl = "recall" THEN BootstrapFilter(res, Settings, bootstrappedPaths)
    ELSE BootstrapFilterP2(res, Settings, bootstrappedPaths)

DecayRuns == impl = "recall" /\ Settings.respectTemporalDecay

Rank(res, nowT) ==
    IF impl = "recall"
    THEN ApplyTemporalDecay(res, Settings, nowT, ResolveTemporalHalfLifeMs(cfg))
    ELSE res

Select(res, randomIndex) ==
    IF impl = "recall" THEN SelectResults(res, Settings, randomIndex)
    ELSE SelectResultsP2(res, Settings, randomIndex)

\* the format stage and the budget: the completion for the joined snippets
Finish(text) ==
    LET truncated == EstimateTokens(text) > Settings.maxTokens
    IN  Return(Some(FormatRecallBlock(BudgetBody(text, Settings))),
               <<Notice("info", IF truncated THEN "truncated" ELSE "results")>>)

\* every value copy i of the function can resolve to, over the draws of
\* Math.random, once manager.search has resolved to res and Date.now() is nowT
RecallBlocks(i, st, halfLife, bsp, res, nowT) ==
    IF res = <<>> THEN {NoResults.value}
    ELSE LET flt == IF i = "recall" THEN BootstrapFilter(res, st, bsp)
                    ELSE BootstrapFilterP2(res, st, bsp)
             rnk == IF i = "recall" THEN ApplyTemporalDecay(flt, st, nowT, halfLife)
                    ELSE flt
             draws == RandomIndexes(IF i = "recall" /\ RandomBranch(rnk, st)
                                    THEN Len(Remaining(rnk, st)) ELSE 0)
             Sel(d) == IF i = "recall" THEN SelectResults(rnk, st, d)
                       ELSE SelectResultsP2(rnk, st, d)
         IN  IF flt = <<>> THEN {NoResults.value}
             ELSE {Some(FormatRecallBlock(BudgetBody(RenderSnippets(Sel(d)), st))) :
                       d \in draws}

\* the tail of SearchResolves once the filtered list flt is known non-empty
SelectAndFormat(flt, nowT) ==
    \E rnk \in {Rank(flt, nowT)} :
    \E randomIndex \in RandomIndexes(
           IF impl = "recall" /\ RandomBranch(rnk, Settings)
           THEN Len(Remaining(rnk, Settings)) ELSE 0) :
    \E sel \in {Select(rnk, randomIndex)} :
    \E text \in {RenderSnippets(sel)} :
        /\ filtered' = flt
        /\ ranked' = rnk
        /\ searchArray' = Some(SearchArrayAfter(
               impl, Settings, ResolveTemporalHalfLifeMs(cfg),
               bootstrappedPaths, results'[1], flt, nowT))
        /\ now' = IF DecayRuns THEN Some(nowT) ELSE None
        /\ selected' = sel
        /\ snippets' = text
        /\ Settle(Finish(text))

\* manager.search resolves to res: filter, decay, select, format, return
SearchResolves ==
    /\ pc = "awaitSearch"
    /\ outcomes' = Append(outcomes, "search resolved")
    /\ \E res \in CandidateLists :
         /\ results' = Some(res)
         /\ IF res = <<>>
            THEN /\ Settle(NoResults)
                 /\ searchArray' = Some(res)
                 /\ UNCHANGED <<filtered, ranked, selected, snippets, now>>
            ELSE \E flt \in {Filter(res)} :
                   IF flt = <<>>
                   THEN /\ Settle(NoResults)
                        /\ filtered' = flt
                        /\ searchArray' = Some(res)
                        /\ UNCHANGED <<ranked, selected, snippets, now>>
                   ELSE \E nowT \in (IF DecayRuns THEN Clock ELSE {0}) :
                            SelectAndFormat(flt, nowT)
    /\ UNCHANGED <<params, managerCalls, searchCalls, hubVars>>

Next ==
    \/ Start
    \/ ManagerRejects
    \/ ManagerUnavailable
    \/ ManagerResolves
    \/ SearchRejects
    \/ SearchResolves

Spec == Init /\ [][Next]_allVars

\* each collaborator call settles: a pending getMemorySearchManager or
\* manager.search eventually resolves or rejects, and the synchronous stretch
\* up to the first await runs once the function is called
CollaboratorSettles ==
    ManagerRejects \/ ManagerUnavailable \/ ManagerResolves \/ SearchRejects \/ SearchResolves

FairSpec == Spec /\ WF_vars(Start) /\ WF_vars(CollaboratorSettles)

-----------------------------------------------------------------------------
(* pollHubMessages (extensions/hub/src/poll.ts) with the onMessages and    *)
(* onError callbacks monitorHubProvider passes (monitor.ts).  One action   *)
(* is one synchronous stretch between two awaits.  A handleHubInbound call *)
(* is seen here as the loop sees it: it resolves or it rejects.            *)

MaxPolls == 7           \* poll requests issued in one behaviour

initialMs == 1000
maxMs == 60000
factor == 2

\* factor ** attempt
RECURSIVE Power(_, _)
Power(b, e) == IF e = 0 THEN 1 ELSE b * Power(b, e - 1)

\* the values (Math.random() * 2 - 1) of [-1, 1) drawn, in thousandths
JitterDraws == {-1000, -500, 0, 500, 999}

\* Math.min(initialMs * factor ** attempt, maxMs)
BackoffBase(n) == Min(initialMs * Power(factor, n), maxMs)

\* mutant: the counter is incremented before the delay is computed
ComputeBackoffNext(n, u) ==
    LET base == BackoffBase(n + 1)
    IN  Max(initialMs, (base * (10000 + 3 * u) + 5000) \div 10000)

\* computeBackoff(attempt) when the jitter draw is u: jitter 0.3 makes the
\* offset base * 3 * u / 10000, and Math.round is floor(x + 0.5)
ComputeBackoff(n, u) ==
    LET base == BackoffBase(n)
    IN  Max(initialMs, (base * (10000 + 3 * u) + 5000) \div 10000)

\* the bodies a poll response can carry: the messages array
Batches == {<<>>, <<"m1">>, <<"m1", "m2">>}

\* mutant: the batch is walked from its end
NextMessageReversed(batch, done) == batch[Len(batch) - Len(done)]

\* for (const message of messages): the message the loop takes next
NextMessage(batch, done) == batch[Len(done) + 1]

\* mutant: the catch block reports and backs off without looking at the signal
CatchAlwaysReports ==
    /\ iterations' = Append(iterations, "failed")
    /\ onErrorCalls' = onErrorCalls + 1
    /\ \E u \in JitterDraws : delay' = Some(ComputeBackoff(attempt, u))
    /\ attempt' = attempt + 1
    /\ pollpc' = "sleep"

\* the catch block up to its await: break if aborted, else onError,
\* computeBackoff(attempt), attempt++ and the call of setTimeout
Catch ==
    /\ iterations' = Append(iterations, "failed")
    /\ IF aborted
       THEN /\ pollpc' = "done"
            /\ UNCHANGED <<onErrorCalls, delay, attempt>>
       ELSE /\ onErrorCalls' = onErrorCalls + 1
            /\ \E u \in JitterDraws : delay' = Some(ComputeBackoff(attempt, u))
            /\ attempt' = attempt + 1
            /\ pollpc' = "sleep"

others == <<vars, inboundVars>>

\* the while test and, when it passes, the call of fetchWithSsrFGuard
LoopTest ==
    /\ pollpc = "loop"
    /\ IF aborted
       THEN /\ pollpc' = "done"
            /\ UNCHANGED <<polls, requestsInFlight>>
       ELSE /\ polls < MaxPolls
            /\ polls' = polls + 1
            /\ requestsInFlight' = requestsInFlight + 1
            /\ pollpc' = "fetch"
    /\ UNCHANGED <<aborted, attempt, thrown, messages, handled, handlersInFlight,
                   unreleased, onErrorCalls, delay, iterations, others>>

\* fetchWithSsrFGuard rejects (network failure, or the signal aborted it)
FetchRejects ==
    /\ pollpc = "fetch"
    /\ requestsInFlight' = requestsInFlight - 1
    /\ Catch
    /\ UNCHANGED <<aborted, thrown, messages, handled, handlersInFlight,
                   unreleased, polls, others>>

\* fetchWithSsrFGuard resolves with { response, release }
FetchResolves ==
    /\ pollpc = "fetch"
    /\ requestsInFlight' = requestsInFlight - 1
    /\ unreleased' = unreleased + 1
    /\ pollpc' = "body"
    /\ UNCHANGED <<aborted, attempt, thrown, messages, handled, handlersInFlight,
                   onErrorCalls, delay, iterations, polls, others>>

\* !response.ok, or response.json() rejects: the error goes to the finally
ResponseFails ==
    /\ pollpc = "body"
    /\ thrown' = TRUE
    /\ pollpc' = "release"
    /\ UNCHANGED <<aborted, attempt, messages, handled, requestsInFlight,
                   handlersInFlight, unreleased, onErrorCalls, delay, iterations,
                   polls, others>>

\* response.json() resolves: onMessages is called when there are messages
ResponseBody ==
    /\ pollpc = "body"
    /\ \E batch \in Batches :
         /\ messages' = batch
         /\ handled' = <<>>
         /\ IF Len(batch) > 0
            THEN /\ handlersInFlight' = handlersInFlight + 1
                 /\ pollpc' = "onMessages"
            ELSE /\ pollpc' = "release"
                 /\ UNCHANGED handlersInFlight
    /\ UNCHANGED <<aborted, attempt, thrown, requestsInFlight, unreleased,
                   onErrorCalls, delay, iterations, polls, others>>

\* monitor.ts: the loop takes the next message and its handleHubInbound resolves
MessageHandled ==
    /\ pollpc = "onMessages"
    /\ Len(handled) < Len(messages)
    /\ handled' = Append(handled, NextMessage(messages, handled))
    /\ UNCHANGED <<pollpc, aborted, attempt, thrown, messages, requestsInFlight,
                   handlersInFlight, unreleased, onErrorCalls, delay, iterations,
                   polls, others>>

\* monitor.ts: handleHubInbound rejects, so onMessages rejects
MessageHandlerThrows ==
    /\ pollpc = "onMessages"
    /\ Len(handled) < Len(messages)
    /\ handled' = Append(handled, NextMessage(messages, handled))
    /\ handlersInFlight' = handlersInFlight - 1
    /\ thrown' = TRUE
    /\ pollpc' = "release"
    /\ UNCHANGED <<aborted, attempt, messages, requestsInFlight, unreleased,
                   onErrorCalls, delay, iterations, polls, others>>

\* mutant: onMessages is called without await
OnMessagesDetached ==
    /\ pollpc = "onMessages"
    /\ pollpc' = "release"
    /\ UNCHANGED <<aborted, attempt, thrown, messages, handled, requestsInFlight,
                   handlersInFlight, unreleased, onErrorCalls, delay, iterations,
                   polls, others>>

\* the loop of onMessages is through: await onMessages(messages) resolves
OnMessagesSettles ==
    /\ pollpc = "onMessages"
    /\ Len(handled) = Len(messages)
    /\ handlersInFlight' = handlersInFlight - 1
    /\ pollpc' = "release"
    /\ UNCHANGED <<aborted, attempt, thrown, messages, handled, requestsInFlight,
                   unreleased, onErrorCalls, delay, iterations, polls, others>>

\* await release() resolves: the pending error reaches the catch block, or
\* the iteration succeeded and attempt = 0
Release ==
    /\ pollpc = "release"
    /\ unreleased' = unreleased - 1
    /\ thrown' = FALSE
    /\ IF thrown
       THEN Catch
       ELSE /\ attempt' = 0
            /\ iterations' = Append(iterations, "ok")
            /\ pollpc' = "loop"
            /\ UNCHANGED <<onErrorCalls, delay>>
    /\ UNCHANGED <<aborted, messages, handled, requestsInFlight,
                   handlersInFlight, polls, others>>

\* await release() rejects: its error reaches the catch block
ReleaseRejects ==
    /\ pollpc = "release"
    /\ unreleased' = unreleased - 1
    /\ thrown' = FALSE
    /\ Catch
    /\ UNCHANGED <<aborted, messages, handled, requestsInFlight,
                   handlersInFlight, polls, others>>

\* setTimeout(delay, undefined, { signal }) resolves
SleepElapses ==
    /\ pollpc = "sleep"
    /\ ~aborted
    /\ pollpc' = "loop"
    /\ UNCHANGED <<aborted, attempt, thrown, messages, handled, requestsInFlight,
                   handlersInFlight, unreleased, onErrorCalls, delay, iterations,
                   polls, others>>

\* setTimeout rejects because the signal is aborted: break
SleepAborted ==
    /\ pollpc = "sleep"
    /\ aborted
    /\ pollpc' = "done"
    /\ UNCHANGED <<aborted, attempt, thrown, messages, handled, requestsInFlight,
                   handlersInFlight, unreleased, onErrorCalls, delay, iterations,
                   polls, others>>

\* monitor.ts: stop() calls ac.abort(), or the caller's abortSignal fires
Abort ==
    /\ ~aborted
    /\ pollpc # "done"
    /\ aborted' = TRUE
    /\ UNCHANGED <<pollpc, attempt, thrown, messages, handled, requestsInFlight,
                   handlersInFlight, unreleased, onErrorCalls, delay, iterations,
                   polls, others>>

HubInit == RecallIdle /\ HubIdle

HubNext ==
    \/ LoopTest
    \/ FetchRejects
    \/ FetchResolves
    \/ ResponseFails
    \/ ResponseBody
    \/ MessageHandled
    \/ MessageHandlerThrows
    \/ OnMessagesSettles
    \/ Release
    \/ ReleaseRejects
    \/ SleepElapses
    \/ SleepAborted
    \/ Abort

HubSpec == HubInit /\ [][HubNext]_allVars

\* every await of the loop settles: the fetch (a long poll with a timeout,
\* rejected by the signal on abort), the body, each handleHubInbound call,
\* release() and the timer; the synchronous stretches run
HubFairSpec ==
    /\ HubSpec
    /\ WF_allVars(LoopTest)
    /\ WF_allVars(FetchRejects \/ FetchResolves)
    /\ WF_allVars(ResponseFails \/ ResponseBody)
    /\ WF_allVars(MessageHandled \/ MessageHandlerThrows)
    /\ WF_allVars(OnMessagesSettles)
    /\ WF_allVars(Release \/ ReleaseRejects)
    /\ WF_allVars(SleepElapses)
    /\ WF_allVars(SleepAborted)

-----------------------------------------------------------------------------
(* handleHubInbound (extensions/hub/src/inbound.ts), one call.  The        *)
(* plugin-sdk functions it awaits are collaborators: each resolves with    *)
(* one of the values drawn below, or rejects.                              *)

UpperCase == "ABCDEFGHIJKLMNOPQRSTUVWXYZ"
LowerCase == "abcdefghijklmnopqrstuvwxyz"

\* String.prototype.toLowerCase, one character
LowerChar(c) ==
    IF \E i \in 1..Len(UpperCase) : CharAt(UpperCase, i) = c
    THEN CharAt(LowerCase, CHOOSE i \in 1..Len(UpperCase) : CharAt(UpperCase, i) = c)
    ELSE c

RECURSIVE ToLowerCase(_)
ToLowerCase(str) ==
    IF str = "" THEN ""
    ELSE LowerChar(CharAt(str, 1)) \o ToLowerCase(SubSeq(str, 2, Len(str)))

\* String.prototype.trim (the only white space drawn is the blank)
RECURSIVE Trim(_)
Trim(str) ==
    IF str = "" THEN ""
    ELSE IF CharAt(str, 1) = " " THEN Trim(SubSeq(str, 2, Len(str)))
    ELSE IF CharAt(str, Len(str)) = " " THEN Trim(SubSeq(str, 1, Len(str) - 1))
    ELSE str

\* entries.map((entry) => String(entry).trim().toLowerCase()).filter(Boolean)
NormalizeHubAllowFrom(entries) ==
    IF entries = None THEN <<>>
    ELSE SelectSeq([i \in 1..Len(entries[1]) |-> ToLowerCase(Trim(entries[1][i]))],
                   LAMBDA e : e # "")

\* mutant: an entry matches every sender id it is a prefix of
IsAllowedSenderPrefix(allowFrom, senderId) ==
    LET normalized == ToLowerCase(Trim(senderId))
    IN  IF normalized = "" THEN FALSE
        ELSE \E i \in 1..Len(allowFrom) :
                 \/ allowFrom[i] = "*"
                 \/ allowFrom[i] = StrPrefix(normalized, Len(allowFrom[i]))

IsAllowedSender(allowFrom, senderId) ==
    LET normalized == ToLowerCase(Trim(senderId))
    IN  IF normalized = "" THEN FALSE
        ELSE \E i \in 1..Len(allowFrom) :
                 allowFrom[i] = "*" \/ allowFrom[i] = normalized

\* resolveEffectiveAllowFromLists(...).effectiveAllowFrom: the configured
\* entries followed by the store's
ResolveEffectiveAllowFromLists(allowFrom, storeAllowList) == allowFrom \o storeAllowList

\* message.text?.trim() ?? ""
RawBody(msg) == IF msg.text = None THEN "" ELSE Trim(msg.text[1])

\* account.config.dmPolicy ?? "pairing"
DmPolicy == Coalesce(dmPolicyCfg, "pairing")

\* senderAllowed, once the store has been read
SenderAllowed(store) ==
    IsAllowedSender(
        ResolveEffectiveAllowFromLists(NormalizeHubAllowFrom(allowFromCfg),
                                       NormalizeHubAllowFrom(Some(store))),
        inbound.from)

\* the DM policy enforcement and the command gate: what the call does next
DmDecision(policy, senderAllowed, block) ==
    IF policy = "disabled" THEN "disabled"
    ELSE IF policy # "open" /\ ~senderAllowed
         THEN IF policy = "pairing" THEN "pairing" ELSE "drop"
    ELSE IF block THEN "blocked"
    ELSE "dispatch"

Senders == {"bob", " Bob ", "bobby", "eve", ""}
Texts == {None, Some("  "), Some("hi")}
Policies == {None, Some("open"), Some("disabled"), Some("allowlist"), Some("pairing")}
AllowFromLists == {None, Some(<<>>), Some(<<"Bob ">>), Some(<<"*">>), Some(<<" ">>)}
StoreLists == {<<>>, <<"eve">>}
RequestStores == {{}, {"eve"}}

InboundInit ==
    /\ RecallIdle
    /\ PollInit
    /\ \E from \in Senders, text \in Texts, policy \in Policies,
          allow \in AllowFromLists, requests \in RequestStores :
           InboundCalled([from |-> from, text |-> text], policy, allow, requests)

rest == <<vars, pollVars>>

\* entry up to the first await: the empty-body return, else the call of
\* readStoreAllowFromForDmPolicy
InboundStart ==
    /\ inpc = "start"
    /\ inpc' = IF RawBody(inbound) = "" THEN "returned" ELSE "readStore"
    /\ UNCHANGED <<inbound, dmPolicyCfg, allowFromCfg, storeAllowFrom,
                   pairingRequests, shouldBlock, upserts, created,
                   pairingReplies, recorded, dispatched, drops, rest>>

\* an awaited store, session or dispatcher call rejects: so does the handler
AwaitRejects ==
    /\ inpc \in {"readStore", "upsert", "record", "dispatch"}
    /\ inpc' = "threw"
    /\ UNCHANGED <<inbound, dmPolicyCfg, allowFromCfg, storeAllowFrom,
                   pairingRequests, shouldBlock, upserts, created,
                   pairingReplies, recorded, dispatched, drops, rest>>

\* the store read resolves: the allow lists, the command gate and the DM
\* policy enforcement, up to the next await or return
StoreRead ==
    /\ inpc = "readStore"
    /\ \E store \in StoreLists, block \in BOOLEAN :
         /\ storeAllowFrom' = Some(store)
         /\ shouldBlock' = Some(block)
         /\ \E decision \in {DmDecision(DmPolicy, SenderAllowed(store), block)} :
              /\ inpc' = CASE decision = "pairing" -> "upsert"
                           [] decision = "dispatch" -> "record"
                           [] OTHER -> "returned"
              /\ upserts' = IF decision = "pairing"
                            THEN Append(upserts, ToLowerCase(inbound.from))
                            ELSE upserts
              /\ recorded' = IF decision = "dispatch" THEN recorded + 1 ELSE recorded
              /\ drops' = CASE decision = "disabled" -> Append(drops, "dmPolicy=disabled")
                            [] decision = "drop" -> Append(drops, "dmPolicy=" \o DmPolicy)
                            [] decision = "blocked" ->
                                   Append(drops, "control command (unauthorized)")
                            [] OTHER -> drops
    /\ UNCHANGED <<inbound, dmPolicyCfg, allowFromCfg, pairingRequests, created,
                   pairingReplies, dispatched, rest>>

\* pairing.upsertPairingRequest resolves: created says whether the id is new;
\* the pairing reply is sent only then
UpsertResolves ==
    /\ inpc = "upsert"
    /\ \E id \in {upserts[Len(upserts)]} :
         /\ created' = Some(id \notin pairingRequests)
         /\ pairingRequests' = pairingRequests \cup {id}
         /\ IF id \notin pairingRequests
            THEN /\ pairingReplies' = Append(pairingReplies, inbound.from)
                 /\ inpc' = "reply"
                 /\ UNCHANGED drops
            ELSE /\ drops' = Append(drops, "dmPolicy=" \o DmPolicy)
                 /\ inpc' = "returned"
                 /\ UNCHANGED pairingReplies
    /\ UNCHANGED <<inbound, dmPolicyCfg, allowFromCfg, storeAllowFrom, shouldBlock,
                   upserts, recorded, dispatched, rest>>

\* deliverHubReply settles; a rejection is caught and logged
ReplySettles ==
    /\ inpc = "reply"
    /\ drops' = Append(drops, "dmPolicy=" \o DmPolicy)
    /\ inpc' = "returned"
    /\ UNCHANGED <<inbound, dmPolicyCfg, allowFromCfg, storeAllowFrom,
                   pairingRequests, shouldBlock, upserts, created,
                   pairingReplies, recorded, dispatched, rest>>

\* recordInboundSession resolves: the reply dispatcher is called
RecordResolves ==
    /\ inpc = "record"
    /\ dispatched' = dispatched + 1
    /\ inpc' = "dispatch"
    /\ UNCHANGED <<inbound, dmPolicyCfg, allowFromCfg, storeAllowFrom,
                   pairingRequests, shouldBlock, upserts, created,
                   pairingReplies, recorded, drops, rest>>

\* dispatchReplyWithBufferedBlockDispatcher resolves
DispatchResolves ==
    /\ inpc = "dispatch"
    /\ inpc' = "returned"
    /\ UNCHANGED <<inbound, dmPolicyCfg, allowFromCfg, storeAllowFrom,
                   pairingRequests, shouldBlock, upserts, created,
                   pairingReplies, recorded, dispatched, drops, rest>>

InboundNext ==
    \/ InboundStart
    \/ AwaitRejects
    \/ StoreRead
    \/ UpsertResolves
    \/ ReplySettles
    \/ RecordResolves
    \/ DispatchResolves

InboundSpec == InboundInit /\ [][InboundNext]_allVars

-----------------------------------------------------------------------------
(* Properties.                                                             *)

Raw == cfg.memoryRecall
Disabled == Raw = None \/ Falsy(Raw[1].enabled)
Enabled == ~Disabled

Returned == pc = "returned"
Absence == pc # "start" => pc = "returned" /\ ret = None
CollaboratorUntouched == managerCalls = 0 /\ searchCalls = <<>> /\ outcomes = <<>>

\* a text block was returned: the invocation went through selection
Selected == Returned /\ ret # None

\* the same candidate, whatever the decay stage did to its score
SameCandidate(a, b) == [a EXCEPT !.score = 0] = [b EXCEPT !.score = 0]

\* C1: with no memoryRecall section, or a falsy enabled flag, the result is
\* null and neither getMemorySearchManager nor manager.search is ever called.
C1_DisabledIsAbsence == Disabled => CollaboratorUntouched /\ Absence

C1_Witness == Returned /\ Raw # None /\ Raw[1].enabled = None

\* C2: an enabled invocation whose message is shorter than minMessageLength
\* returns null without touching the collaborator; a message exactly
\* minMessageLength long passes this rule (it reaches getMemorySearchManager
\* unless the heartbeat rule stops it).
C2_ShortMessageIsAbsence ==
    Enabled =>
        /\ Len(incomingMessage) < Settings.minMessageLength
               => CollaboratorUntouched /\ Absence
        /\ Len(incomingMessage) = Settings.minMessageLength
           /\ ~(Settings.skipHeartbeats /\ isHeartbeat) /\ pc # "start"
               => managerCalls = 1

C2_Witness ==
    /\ Enabled /\ Returned
    /\ Len(incomingMessage) = 19 /\ Settings.minMessageLength = 20

\* C3: an enabled invocation with isHeartbeat and skipHeartbeats both true
\* returns null without touching the collaborator, whatever the message length.
C3_HeartbeatIsAbsence ==
    Enabled /\ isHeartbeat /\ Settings.skipHeartbeats
        => CollaboratorUntouched /\ Absence

C3_Witness ==
    /\ Enabled /\ isHeartbeat /\ Settings.skipHeartbeats /\ Returned
    /\ Len(incomingMessage) >= Settings.minMessageLength
    /\ Len(incomingMessage) > 0

CollaboratorFailed ==
    /\ outcomes # <<>>
    /\ outcomes[Len(outcomes)] \in {"manager rejected", "manager null", "search rejected"}

\* C4: the promise never rejects, and when acquiring the manager or the
\* search fails the invocation returns null.
C4_FailuresAreAbsence ==
    /\ pc # "threw"
    /\ CollaboratorFailed => Returned /\ ret = None

C4_Witness == Returned /\ outcomes = <<"manager resolved", "search rejected">>

\* C5: the returned value is null or a non-empty string, never "".
C5_NeverEmptyString == Returned => ret = None \/ ret[1] # ""

\* the block closest to "": maxTokens = 0 cuts the body to nothing
C5_Witness == Returned /\ ret = Some(RecallHeader) /\ selected # <<>>

\* C6: every manager.search call asks for exactly maxResults
\* + 3 (if excludeBootstrapped) + 2 (if randomSlot) results.
C6_RequestCountFormula ==
    \A i \in 1..Len(searchCalls) :
        searchCalls[i].maxResults =
            Settings.maxResults + (IF Settings.excludeBootstrapped THEN 3 ELSE 0)
                                + (IF Settings.randomSlot THEN 2 ELSE 0)

\* C7: with maxResults >= 1 the selection holds
\* min(maxResults, candidates left after the bootstrap filter) candidates.
C7_SelectionSize ==
    Selected /\ Settings.maxResults >= 1
        => Len(selected) = Min(Settings.maxResults, Len(filtered))

C7_Witness ==
    /\ Selected /\ impl = "recall" /\ Settings.randomSlot
    /\ Settings.maxResults = 2 /\ Len(filtered) > 2

\* C8: with randomSlot and more than maxResults filtered candidates the
\* selection is maxResults long, starts with the first maxResults - 1
\* filtered candidates in their order and ends with one of the filtered
\* candidates at positions maxResults - 1 (0-based) and later.
C8_RandomSlotSelection ==
    Selected /\ Settings.maxResults >= 1 /\ Settings.randomSlot
             /\ Len(filtered) > Settings.maxResults
        => /\ Len(selected) = Settings.maxResults
           /\ \A i \in 1..(Settings.maxResults - 1) :
                  SameCandidate(selected[i], filtered[i])
           /\ \E j \in Settings.maxResults..Len(filtered) :
                  SameCandidate(selected[Settings.maxResults], filtered[j])

\* C9: with randomSlot false, or at most maxResults filtered candidates, the
\* selection is the first maxResults filtered candidates (all if fewer) in the
\* order the collaborator returned them.
C9_TopSliceSelection ==
    Selected /\ Settings.maxResults >= 1
             /\ (~Settings.randomSlot \/ Len(filtered) <= Settings.maxResults)
        => /\ Len(selected) = Min(Settings.maxResults, Len(filtered))
           /\ \A i \in 1..Len(selected) : SameCandidate(selected[i], filtered[i])

\* C10: with excludeBootstrapped no selected candidate has a source whose
\* base filename is MEMORY.md or memory.md, whatever bootstrappedPaths is.
C10_BootstrapFilenamesExcluded ==
    Selected /\ Settings.excludeBootstrapped
        => \A i \in 1..Len(selected) :
               LET source == SourceOf(selected[i])
               IN  source = None \/ Basename(source[1]) \notin {"MEMORY.md", "memory.md"}

\* C11: with excludeBootstrapped no selected candidate has a source
\* identifier that contains, or is contained in, an entry of the
\* caller-supplied bootstrappedPaths.
C11_BootstrappedPathsExcluded ==
    Selected /\ Settings.excludeBootstrapped /\ bootstrappedPaths # None
        => \A i \in 1..Len(selected) :
               LET source == SourceOf(selected[i])
               IN  ~FalsyStr(source)
                       => \A bp \in bootstrappedPaths[1] :
                              /\ ~Includes(source[1], bp)
                              /\ ~Includes(bp, source[1])

\* both directions occur: notes/todo.md contains the entry "notes/", and
\* memory/2026-11-02.md is contained in the entry "/home/a/memory/2026-11-02.md"
C11_Witness ==
    /\ Selected /\ Settings.excludeBootstrapped
    /\ bootstrappedPaths = Some({"notes/", "/home/a/memory/2026-11-02.md"})
    /\ \E i, j \in 1..Len(results[1]) :
           /\ results[1][i].path = Some("notes/todo.md")
           /\ results[1][j].path = Some("memory/2026-11-02.md")

\* the text after the header of a returned block
Body == SubSeq(ret[1], Len(RecallHeader) + 1, Len(ret[1]))

\* C12: with maxTokens >= 1, if ceil(length(snippets) / 4) > maxTokens the
\* body after the header is the first maxTokens * 4 characters of the
\* rendered snippets (exactly that long); otherwise it is the snippets unchanged.
C12_TokenBudget ==
    Selected /\ Settings.maxTokens >= 1
        => /\ SubSeq(ret[1], 1, Len(RecallHeader)) = RecallHeader
           /\ IF Len(snippets) > 4 * Settings.maxTokens
              THEN /\ Len(Body) = 4 * Settings.maxTokens
                   /\ Body = SubSeq(snippets, 1, 4 * Settings.maxTokens)
              ELSE Body = snippets

C12_Witness ==
    /\ Selected /\ Settings.maxTokens = 4
    /\ Len(snippets) > 16 /\ Len(Body) = 16

\* what this invocation could have returned with settings st at time t
BlocksAt(st, t) ==
    RecallBlocks(impl, st, ResolveTemporalHalfLifeMs(cfg), bootstrappedPaths,
                 results[1], t)

Searched == Returned /\ results # None

\* C13: with randomSlot false the result is a function of the settings, the
\* message, bootstrappedPaths and the candidate list alone: at every time
\* Date.now() can read, the same arguments give the value this invocation
\* returned.
C13_Deterministic ==
    Searched /\ ~Settings.randomSlot
        => \A t \in Clock : BlocksAt(Settings, t) = {ret}

\* C16: respectTemporalDecay has no effect: the value returned is one the
\* same invocation can return with the flag negated, at any time.
C16_DecayFlagIgnored ==
    Searched
        => \A t \in Clock :
               ret \in BlocksAt([Settings EXCEPT !.respectTemporalDecay = ~@], t)

\* a is b with some entries left out
RECURSIVE IsSubsequence(_, _)
IsSubsequence(a, b) ==
    IF a = <<>> THEN TRUE
    ELSE IF b = <<>> THEN FALSE
    ELSE IF Head(a) = Head(b) THEN IsSubsequence(Tail(a), Tail(b))
    ELSE IsSubsequence(a, Tail(b))

\* C17: the list the selection slices is a subsequence of the list
\* manager.search resolved to, in that order and with the scores it supplied.
C17_NeverResorted == Selected => IsSubsequence(ranked, results[1])

\* manager.search resolved and nothing is left to render: it resolved to no
\* candidates, or the bootstrap filter removed them all
NothingLeft == Searched /\ filtered = <<>>

\* C14: when no candidate is left after the search or after the filter the
\* result is null; a returned block always has a body (for the documented
\* ranges maxResults >= 1 and maxTokens >= 1).
C14_NothingLeftIsAbsence ==
    /\ NothingLeft => ret = None
    /\ Selected /\ Settings.maxResults >= 1 /\ Settings.maxTokens >= 1
           => selected # <<>> /\ Len(ret[1]) > Len(RecallHeader)

\* the filter removed every candidate the search returned
C14_Witness == NothingLeft /\ Len(results[1]) >= 2 /\ ret = None

\* a field as documented: the value given, or the default when omitted
Documented(field, default) == IF field = None THEN default ELSE field[1]

\* C15: for an enabled section the resolver returns every field that is given
\* unchanged (also false and 0) and every omitted field at its documented
\* default: 20, 3, 0.5, 1000, true, true, true.
C15_ResolverDefaults ==
    Enabled =>
        LET raw == Raw[1]
            st == Resolve(impl, cfg)
        IN  /\ st # None
            /\ st[1].minMessageLength = Documented(raw.minMessageLength, 20)
            /\ st[1].maxResults = Documented(raw.maxResults, 3)
            /\ st[1].minScore = Documented(raw.minScore, 800)
            /\ st[1].maxTokens = Documented(raw.maxTokens, 1000)
            /\ st[1].skipHeartbeats = Documented(raw.skipHeartbeats, TRUE)
            /\ st[1].excludeBootstrapped = Documented(raw.excludeBootstrapped, TRUE)
            /\ st[1].randomSlot = Documented(raw.randomSlot, TRUE)
            /\ \A i \in 1..Len(searchCalls) :
                   searchCalls[i].minScore = Documented(raw.minScore, 800)

\* explicit 0 and false next to omitted fields, used by a search call
C15_Witness ==
    /\ Enabled /\ searchCalls # <<>>
    /\ Raw[1].maxResults = Some(0) /\ Raw[1].minScore = Some(0)
    /\ Raw[1].randomSlot = Some(FALSE) /\ Raw[1].maxTokens = None

\* the candidates of a list that have neither path nor source
NoSource(r) == SourceOf(r) = None
Sourceless(res) == SelectSeq(res, NoSource)

\* C18: a candidate with neither path nor source is never removed by the
\* bootstrap filter, whatever the bootstrapped set holds (also an entry "").
C18_SourcelessKept == Searched => Sourceless(filtered) = Sourceless(results[1])

\* the set holds "", which every sourced candidate matches, and the filter
\* removed the others while the sourceless candidate stayed
C18_Witness ==
    /\ Searched /\ Settings.excludeBootstrapped
    /\ bootstrappedPaths = Some({""})
    /\ Sourceless(results[1]) # <<>>
    /\ filtered = Sourceless(results[1])
    /\ Len(filtered) < Len(results[1])

\* C19: with excludeBootstrapped false the filter removes nothing: the list
\* handed on is the list the collaborator returned, MEMORY.md candidates and
\* candidates matching a bootstrapped entry included.
C19_FilterOffKeepsAll ==
    Searched /\ ~Settings.excludeBootstrapped => filtered = results[1]

\* excludeBootstrapped is false; a MEMORY.md candidate and a candidate under
\* the bootstrapped entry "notes/" were returned and handed on
C19_Witness ==
    /\ Searched /\ ~Settings.excludeBootstrapped
    /\ bootstrappedPaths # None /\ "notes/" \in bootstrappedPaths[1]
    /\ \E i \in 1..Len(results[1]) : results[1][i].path = Some("MEMORY.md")
    /\ \E i \in 1..Len(results[1]) : results[1][i].path = Some("notes/todo.md")
    /\ filtered = results[1]

\* a line whose tag is built from the identifier the filter resolves
LineFromSource(r) ==
    LET source == SourceOf(r)
        location ==
            IF source # None
            THEN "[" \o source[1]
                 \o (IF r.startLine # None /\ r.startLine[1] # 0
                     THEN "#L" \o ToString(r.startLine[1]) ELSE "")
                 \o "]"
            ELSE "[memory]"
    IN  location \o ": " \o r.snippet

\* C20: every selected candidate is rendered with the tag built from its
\* source identifier (path or source) and optional line number; [memory] is
\* used only when it has no identifier at all.
C20_TagFromSourceIdentifier ==
    Selected =>
        snippets = Join([i \in 1..Len(selected) |-> LineFromSource(selected[i])], "\n\n")

\* the notices of one level, in order
NoticesAt(level) == SelectSeq(log, LAMBDA n : n.level = level)

\* C21: an invocation in which acquiring the manager fails (it throws, or no
\* usable manager comes back) or the search fails writes a warning notice
\* before it returns null.
C21_FailuresAreWarned ==
    Returned /\ CollaboratorFailed => NoticesAt("warn") # <<>>

\* C22: an invocation that returns null because the feature is disabled, the
\* message is ineligible, or no candidate was returned or left, writes no
\* notice at all; exactly one informational notice is written by, and only
\* by, an invocation that returns a text block.
C22_NoticePerBlock ==
    Returned =>
        /\ ret # None => Len(NoticesAt("info")) = 1 /\ log = NoticesAt("info")
        /\ ret = None => NoticesAt("info") = <<>>
        /\ ret = None /\ ~CollaboratorFailed => log = <<>>

\* a block was returned after a truncation: one informational notice
C22_Witness ==
    Selected /\ selected # <<>> /\ log = <<Notice("info", "truncated")>>

\* C23: getMemorySearchManager is called at most once, manager.search at
\* most once and only after the manager call resolved with a manager, and
\* the filter, selection and format stages run only after the search resolved.
C23_CollaboratorOrder ==
    /\ managerCalls <= 1
    /\ Len(searchCalls) <= 1
    /\ searchCalls # <<>> =>
           managerCalls = 1 /\ outcomes # <<>> /\ outcomes[1] = "manager resolved"
    /\ \/ results # None \/ filtered # <<>> \/ ranked # <<>>
       \/ selected # <<>> \/ snippets # "" \/ ret # None
       => Len(searchCalls) = 1 /\ outcomes = <<"manager resolved", "search resolved">>

\* every stage ran, after one manager call and one search
C23_Witness ==
    /\ Selected /\ selected # <<>>
    /\ managerCalls = 1 /\ Len(searchCalls) = 1
    /\ outcomes = <<"manager resolved", "search resolved">>

\* C26: with maxResults >= 1 the selected entries sit at pairwise distinct
\* positions of the list the selection slices; the drawn entry is never one
\* of the prefix entries.
C26_DistinctPositions ==
    Selected /\ Settings.maxResults >= 1 =>
        \E pos \in [1..Len(selected) -> 1..Len(ranked)] :
            /\ \A i \in 1..Len(selected) : ranked[pos[i]] = selected[i]
            /\ \A i, j \in 1..Len(selected) : i # j => pos[i] # pos[j]

\* the random branch ran with a prefix of at least one entry and drew an
\* entry other than the next by score
C26_Witness ==
    /\ Selected /\ impl = "recall" /\ Settings.maxResults >= 2
    /\ RandomBranch(ranked, Settings)
    /\ selected[Len(selected)] # ranked[Settings.maxResults]

\* the invocation is suspended at one of its two awaits
Awaiting == pc \in {"awaitManager", "awaitSearch"}

\* C24: every invocation eventually returns provided each collaborator call
\* eventually resolves or rejects; while a call is pending the invocation
\* stays where it is: the only step out of an await is that call settling.
C24_ReturnsIffCollaboratorSettles ==
    /\ <>Returned
    /\ [][Awaiting => Len(outcomes') = Len(outcomes) + 1]_vars

\* both collaborator calls were made and settled, and the invocation returned
C24_Witness == Returned /\ Len(outcomes) = 2 /\ managerCalls = 1 /\ Len(searchCalls) = 1

\* C25: the caller's bootstrapped set and configuration are never written,
\* and the array manager.search resolved to, with its records, holds after
\* the invocation what it held when it was handed over.
C25_InputsUnchanged ==
    /\ [][cfg' = cfg /\ bootstrappedPaths' = bootstrappedPaths]_vars
    /\ [](results # None => searchArray = results)

\* the decay stage rescored and re-sorted the unfiltered list, in a copy
C25_Witness ==
    /\ Selected /\ DecayRuns /\ ~Settings.excludeBootstrapped
    /\ bootstrappedPaths # None /\ bootstrappedPaths[1] # {}
    /\ ranked # results[1]
    /\ searchArray = results

\* the last finished iteration of the poll loop
LastIteration == IF iterations = <<>> THEN "none" ELSE iterations[Len(iterations)]

\* nothing of an earlier iteration is still going on
NothingInFlight == requestsInFlight = 0 /\ handlersInFlight = 0 /\ unreleased = 0

\* C27: pollHubMessages never has two poll requests or two onMessages runs in
\* flight; a poll request is issued only at the loop head with the previous
\* response handled and released, and the loop head is reached only from a
\* released, successful iteration or an elapsed backoff sleep; the monitor
\* takes the messages of a batch one at a time in the order received.
C27_OnePollAtATime ==
    /\ [](/\ requestsInFlight <= 1 /\ handlersInFlight <= 1 /\ unreleased <= 1
          /\ requestsInFlight = 1 => handlersInFlight = 0 /\ unreleased = 0
          /\ handled = SubSeq(messages, 1, Len(handled)))
    /\ [][polls' # polls => pollpc = "loop" /\ NothingInFlight]_allVars
    /\ [][pollpc # "loop" /\ pollpc' = "loop" =>
              \/ pollpc = "release" /\ ~thrown /\ handlersInFlight = 0
              \/ pollpc = "sleep"]_allVars

\* a second poll request is out after a batch of two was handled in order
C27_Witness ==
    /\ pollpc = "fetch" /\ polls >= 2
    /\ handled = <<"m1", "m2">>
    /\ LastIteration = "ok"

\* the failed iterations so far
FailedIterations == Len(SelectSeq(iterations, LAMBDA o : o = "failed"))

\* C28: once the signal has fired no poll request is started and onError is
\* not called, and pollHubMessages eventually returns, wherever the abort
\* arrives.
C28_AbortStopsPolling ==
    /\ [][aborted => polls' = polls /\ onErrorCalls' = onErrorCalls]_allVars
    /\ aborted ~> (pollpc = "done")

\* the loop was left through the catch block: a failure seen after the abort
\* that was not reported
C28_Witness ==
    /\ pollpc = "done" /\ aborted
    /\ LastIteration = "failed"
    /\ onErrorCalls < FailedIterations

\* the number of failed iterations since the last successful one
RECURSIVE TrailingFailures(_)
TrailingFailures(its) ==
    IF its = <<>> \/ its[Len(its)] = "ok" THEN 0
    ELSE 1 + TrailingFailures(SubSeq(its, 1, Len(its) - 1))

\* d is base with at most 30% jitter, and never below 1000 ms
WithinJitter(d, base) ==
    /\ d >= initialMs
    /\ d >= (base * 7) \div 10
    /\ d <= Max(initialMs, (base * 13) \div 10)

\* C29: the counter equals the number of consecutive failed iterations since
\* the last successful poll, and the delay slept after the k-th consecutive
\* failure is min(1000 * 2^k, 60000) ms with 30% jitter, at least 1000 ms.
C29_BackoffAfterKthFailure ==
    pollpc # "done" =>
        /\ attempt = TrailingFailures(iterations)
        /\ pollpc = "sleep" =>
               WithinJitter(delay[1], Min(1000 * Power(2, TrailingFailures(iterations)), 60000))

\* C29 as the code has it: while the loop runs the counter equals the number
\* of consecutive failed iterations, and the delay slept after the k-th
\* consecutive failure (k >= 1) is min(1000 * 2^(k-1), 60000) ms with 30%
\* jitter, at least 1000 ms.
C29_BackoffFromPreviousCount ==
    pollpc # "done" =>
        /\ attempt = TrailingFailures(iterations)
        /\ pollpc = "sleep" =>
               /\ TrailingFailures(iterations) >= 1
               /\ WithinJitter(delay[1],
                      Min(1000 * Power(2, TrailingFailures(iterations) - 1), 60000))

\* the seventh consecutive failure: the base has reached the 60000 ms cap
C29_Witness ==
    /\ pollpc = "sleep" /\ attempt = 7
    /\ TrailingFailures(iterations) = 7
    /\ delay[1] > 60000

\* the entries the sender is compared with: the configured ones and the
\* store's, as written
AllowEntries ==
    {Coalesce(allowFromCfg, <<>>)[i] : i \in 1..Len(Coalesce(allowFromCfg, <<>>))}
    \cup {Coalesce(storeAllowFrom, <<>>)[i] : i \in 1..Len(Coalesce(storeAllowFrom, <<>>))}

\* the same id, whatever the case of its letters and the blanks around it
SameId(a, b) == ToLowerCase(Trim(a)) = ToLowerCase(Trim(b))

\* the sender matches the effective allowlist: an entry is "*" or its id
SenderMatches == \E e \in AllowEntries : Trim(e) = "*" \/ SameId(e, inbound.from)

\* C30: handleHubInbound records the session and calls the reply dispatcher
\* only if the trimmed text is non-empty, dmPolicy is not "disabled", and
\* dmPolicy is "open" or the sender matches the effective allowlist; a
\* pairing request is upserted only for a non-allowed sender under dmPolicy
\* "pairing", and a pairing reply is sent only when it was newly created.
C30_DispatchOnlyWhenAllowed ==
    /\ recorded > 0 \/ dispatched > 0 =>
           /\ RawBody(inbound) # ""
           /\ DmPolicy # "disabled"
           /\ DmPolicy = "open" \/ SenderMatches
    /\ dispatched <= recorded /\ recorded <= 1
    /\ upserts # <<>> => DmPolicy = "pairing" /\ recorded = 0
    /\ pairingReplies # <<>> => upserts # <<>> /\ created = Some(TRUE)
    /\ created = Some(FALSE) => pairingReplies = <<>>

\* a sender written " Bob " was dispatched under "allowlist" for the entry
\* "Bob ", and the handler returned
C30_Witness ==
    /\ inpc = "returned" /\ dispatched = 1
    /\ DmPolicy = "allowlist"
    /\ inbound.from = " Bob "
    /\ RawBody(inbound) = "hi"

====
